---- MODULE Spec2Model ----
(***************************************************************************)
(* A model of the STA-UNet training pipeline:                              *)
(*   - the epoch/batch loop of trainer_synapse and trainer_assd            *)
(*     (src/trainer_unet.py), with its loss composition, its polynomial    *)
(*     learning-rate expression, its checkpoint writes and its (absent)    *)
(*     exception handling;                                                 *)
(*   - the learning-rate expression as a pure function;                    *)
(*   - the tensor shapes flowing through UNet_STA.forward                  *)
(*     (src/unet/unet_stvit.py);                                           *)
(*   - KDloss.inter_fd on small integer-valued feature maps.               *)
(* Real numbers are fixed point: losses in LossVals units, the total loss  *)
(* in tenths of a unit, learning rates in units of base_lr / BaseLrUnits.  *)
(***************************************************************************)
EXTENDS Integers, Sequences, FiniteSets, TLC

VARIABLES
    \* ---- training driver ----
    trainer,      \* "synapse" or "assd": which of the two drivers runs
    cuda_ok,      \* torch.cuda.is_available() on this host
    max_epoch,    \* args.max_epochs
    n_batches,    \* len(trainloader)
    base_lr,      \* args.base_lr, in learning-rate units
    pc,           \* position of the driver in its code
    device,       \* the local `device` of trainer_synapse ("unbound" until assigned)
    xpu_seen,     \* what torch.xpu.is_available() answered ("unasked", "yes", "no")
    diagnostic,   \* the device check has printed its 'Neither CUDA nor XPU ...' line
    epoch_num,    \* loop variable of the epoch loop
    i_batch,      \* index of the current batch within the epoch (-1: none yet)
    iter_num,     \* the step counter
    loss_ce,      \* cross-entropy of the current batch (0: not computed)
    loss_dice,    \* Dice loss of the current batch (0: not computed)
    loss,         \* total loss of the current batch, in tenths (0: not computed)
    lr_,          \* the local lr_ computed in the current batch (-1: not computed)
    opt_lr,       \* the learning rate held by the optimizer's parameter group
    backprop,     \* the loss value loss.backward() was called on (0: none)
    grad,         \* the steps whose gradients are accumulated in the .grad buffers
    params,       \* the model parameters, as the number of updates applied to them
    fwd_params,   \* value of params when the current batch's forward pass ran
    step_lr,      \* the learning rate the latest optimizer.step() applied (-1: none)
    batch_log,    \* scalars the current batch appended to the SummaryWriter
    saved,        \* epoch indices n for which a file epoch_<n>.pth is on disk
    n_saves,      \* number of torch.save calls made
    files,        \* the checkpoint files on disk: path, the epochs of the first and
                  \* of the latest write to it, and the number of writes
    result,       \* return value of the trainer ("none" until it returns)
    exc,          \* where the exception that ended the run was raised ("none")
    \* ---- learning-rate schedule as a pure function ----
    sched,
    \* ---- UNet_STA.forward on tensor shapes ----
    net,
    \* ---- KDloss.inter_fd ----
    kd

tvars == <<trainer, cuda_ok, max_epoch, n_batches, base_lr, pc, device,
           xpu_seen, diagnostic, files,
           epoch_num, i_batch, iter_num, loss_ce, loss_dice, loss, lr_, opt_lr,
           backprop, grad, params, fwd_params, step_lr, batch_log, saved, n_saves,
           result, exc>>
vars == <<tvars, sched, net, kd>>

(***************************************************************************)
(* Bounds of the model.                                                    *)
(***************************************************************************)
MaxEpochs == 90          \* max_epochs ranges over 0..MaxEpochs
MaxBatches == 2          \* len(trainloader) ranges over 0..MaxBatches
BaseLrUnits == 1000      \* base_lr, expressed in learning-rate units
LossVals == {1, 2}       \* values a batch's CE and Dice loss may take

(***************************************************************************)
(* Program constants.                                                      *)
(***************************************************************************)
CeWeight == 4            \* 0.4, in tenths
DiceWeight == 6          \* 0.6, in tenths
SaveAfterEpoch == 80     \* `if epoch_num > 80`
PowNum == 9              \* the exponent 0.9 = PowNum / PowDen
PowDen == 10

(***************************************************************************)
(* Floating point, reduced to a 15-bit mantissa.  A value in [0, 1] is     *)
(* [m, e], standing for (m / MantScale) * 2^(-e) with MantScale/2 < m <=   *)
(* MantScale, or m = 0 for zero.  Every operation rounds toward zero.      *)
(***************************************************************************)
MantScale == 2^15

RECURSIVE Norm(_, _)
Norm(m, e) ==
    IF m = 0 THEN [m |-> 0, e |-> 0]
    ELSE IF 2 * m <= MantScale THEN Norm(2 * m, e + 1)
    ELSE [m |-> m, e |-> e]

RECURSIVE RatioShift(_, _, _)
RatioShift(n, d, e) ==
    IF 2 * n <= d THEN RatioShift(2 * n, d, e + 1)
    ELSE [m |-> (n * MantScale) \div d, e |-> e]

\* n / d for 0 <= n <= d, 0 < d
Ratio(n, d) == IF n = 0 THEN [m |-> 0, e |-> 0] ELSE RatioShift(n, d, 0)

FMul(a, b) == Norm((a.m * b.m) \div MantScale, a.e + b.e)

FLeq(a, b) ==
    \/ a.m = 0
    \/ b.m # 0 /\ (a.e > b.e \/ (a.e = b.e /\ a.m <= b.m))

RECURSIVE FPow(_, _)
FPow(x, k) == IF k = 1 THEN x ELSE FMul(FPow(x, k - 1), x)

\* the largest y in lo..hi (in units of 1/scale) with y^PowDen <= tgt
RECURSIVE RootSearch(_, _, _, _)
RootSearch(lo, hi, tgt, scale) ==
    IF lo >= hi THEN lo
    ELSE LET mid == (lo + hi + 1) \div 2 IN
         IF FLeq(FPow(Ratio(mid, scale), PowDen), tgt)
         THEN RootSearch(mid, hi, tgt, scale)
         ELSE RootSearch(lo, mid - 1, tgt, scale)

\* mutant: the fraction itself instead of its complement
FractionOnly(step, total) == Ratio(step, total)

\* 1.0 - iter_num / max_iterations
OneMinusFraction(step, total) == Ratio(total - step, total)

\* base * x ** 0.9, in learning-rate units: the PowDen-th root of x^PowNum
ScaledPow(base, x) == RootSearch(0, base, FPow(x, PowNum), base)

\* lr_ = base_lr * (1.0 - iter_num / max_iterations) ** 0.9
PolyLr(base, step, total) == ScaledPow(base, OneMinusFraction(step, total))

(***************************************************************************)
(* The training driver.                                                    *)
(***************************************************************************)
NoLog == [lr |-> -1, total_loss |-> 0, dice_loss |-> 0, loss_ce |-> 0, step |-> -1]

\* mutant: the distillation term of the disabled line is added
TotalLossWithKd(ce, dice) == CeWeight * ce + DiceWeight * dice + 1

\* loss = 0.4 * loss_ce + 0.6 * loss_dice, in tenths
TotalLoss(ce, dice) == CeWeight * ce + DiceWeight * dice

\* max_iterations = args.max_epochs * len(trainloader)
max_iterations == max_epoch * n_batches

\* mutant: the counter is advanced twice per batch
NextIterTwice(n) == n + 2

\* iter_num += 1
NextIter(n) == n + 1

\* mutant: the threshold epoch itself is saved too
SaveByThresholdInclusive(e) == e >= SaveAfterEpoch

\* `if epoch_num > 80`
SaveByThreshold(e) == e > SaveAfterEpoch

\* mutant: the final-epoch test is off by one
SaveAtFinalOffByOne(e, m) == e >= m

\* `if epoch_num >= max_epoch - 1`
SaveAtFinal(e, m) == e >= m - 1

\* the places of the loop where the framework, the loader or the disk can raise
CanRaise ==
    \/ pc = "fetch" /\ i_batch + 1 < n_batches
    \/ pc \in {"forward", "loss", "backward", "step", "log"}
    \/ pc = "ckpt80" /\ SaveByThreshold(epoch_num)
    \/ pc = "ckpt_final" /\ SaveAtFinal(epoch_num, max_epoch)

\* mutant: a handler swallows the exception and goes on with the next batch
OnExceptionContinue == "fetch"

\* no try/except anywhere in the drivers: an exception leaves the function
OnException == "raised"

\* mutant: the .grad buffers are not cleared, gradients accumulate over batches
zero_grad_kept(g) == g

\* optimizer.zero_grad(): the .grad buffers hold no step's gradients afterwards
zero_grad(g) == {}

Others == UNCHANGED <<sched, net, kd>>
Env == UNCHANGED <<trainer, cuda_ok, max_epoch, n_batches, base_lr>>
Probe == UNCHANGED <<xpu_seen, diagnostic>>
Disk == UNCHANGED files

\* str(n) for an integer n, as the sequence of its characters
DigitChar == <<"0", "1", "2", "3", "4", "5", "6", "7", "8", "9">>

RECURSIVE str(_)
str(n) ==
    IF n < 0 THEN <<"-">> \o str(-n)
    ELSE IF n < 10 THEN <<DigitChar[n + 1]>>
    ELSE str(n \div 10) \o <<DigitChar[(n % 10) + 1]>>

\* os.path.join(dir, name) for a relative file name
os_path_join(dir, name) == dir \o <<"/">> \o name

\* mutant: the epoch index is left out of the file name
save_mode_path_fixed(epoch) == os_path_join(<<"snapshot_path">>, <<"epoch", ".pth">>)

\* os.path.join(snapshot_path, 'epoch_' + str(epoch_num) + '.pth')
save_mode_path(epoch) ==
    os_path_join(<<"snapshot_path">>, <<"epoch_">> \o str(epoch) \o <<".pth">>)

\* torch.save(model.state_dict(), path) during epoch `epoch`: the file is created,
\* or its content is replaced
torch_save(fs, path, epoch) ==
    IF \E f \in fs : f.path = path
    THEN {IF f.path = path
          THEN [f EXCEPT !.last = epoch, !.writes = f.writes + 1]
          ELSE f : f \in fs}
    ELSE fs \cup {[path |-> path, first |-> epoch, last |-> epoch, writes |-> 1]}

\* mutant: the else branch falls back to the CPU
ChosenDeviceCpu(cuda, xpu, dev) == IF cuda THEN "cuda" ELSE IF xpu THEN "xpu" ELSE "cpu"

\* if cuda: device = 'cuda' elif xpu: device = 'xpu' else: (no assignment)
ChosenDevice(cuda, xpu, dev) == IF cuda THEN "cuda" ELSE IF xpu THEN "xpu" ELSE dev

TrainerInit ==
    /\ trainer \in {"synapse", "assd"}
    /\ cuda_ok \in BOOLEAN
    /\ max_epoch \in 0..MaxEpochs
    /\ n_batches \in 0..MaxBatches
    /\ base_lr = BaseLrUnits
    /\ pc = IF trainer = "synapse" THEN "device_check" ELSE "setup"
    /\ device = "unbound"
    /\ xpu_seen = "unasked"
    /\ diagnostic = FALSE
    /\ epoch_num = -1
    /\ i_batch = -1
    /\ iter_num = 0
    /\ loss_ce = 0 /\ loss_dice = 0 /\ loss = 0
    /\ lr_ = -1
    /\ opt_lr = -1
    /\ backprop = 0
    /\ grad = {}
    /\ params = 0
    /\ fwd_params = 0
    /\ step_lr = -1
    /\ batch_log = NoLog
    /\ saved = {}
    /\ n_saves = 0
    /\ files = {}
    /\ result = "none"
    /\ exc = "none"

\* trainer_synapse: the device-availability check
DeviceCheck ==
    /\ pc = "device_check"
    /\ \E xpu_ok \in BOOLEAN :    \* what torch.xpu.is_available() answers
          \* the elif is evaluated only when CUDA is not available
          /\ xpu_seen' = IF cuda_ok THEN "unasked" ELSE IF xpu_ok THEN "yes" ELSE "no"
          /\ device' = ChosenDevice(cuda_ok, xpu_ok, device)
          \* else: print('Neither CUDA nor XPU devices are available ...')
          /\ diagnostic' = (~cuda_ok /\ ~xpu_ok)
    /\ pc' = "print_device"
    /\ UNCHANGED <<epoch_num, i_batch, iter_num, loss_ce, loss_dice, loss, lr_, opt_lr,
                   backprop, grad, params, fwd_params, step_lr, batch_log, saved,
                   n_saves, result, exc>>
    /\ Env /\ Disk /\ Others

\* trainer_synapse: print(device); sort_by_keyword = device + "_time_total"
PrintDevice ==
    /\ pc = "print_device"
    /\ IF device = "unbound"
       THEN pc' = OnException /\ exc' = "print_device"
       ELSE pc' = "setup" /\ exc' = exc
    /\ UNCHANGED <<device, epoch_num, i_batch, iter_num, loss_ce, loss_dice, loss, lr_,
                   opt_lr, backprop, grad, params, fwd_params, step_lr, batch_log,
                   saved, n_saves, result>>
    /\ Env /\ Probe /\ Disk /\ Others

\* losses, optimizer (lr=base_lr), writer, iter_num = 0
Setup ==
    /\ pc = "setup"
    /\ opt_lr' = base_lr
    /\ iter_num' = 0
    /\ pc' = "epoch"
    /\ UNCHANGED <<device, epoch_num, i_batch, loss_ce, loss_dice, loss, lr_,
                   backprop, grad, params, fwd_params, step_lr, batch_log, saved,
                   n_saves, result, exc>>
    /\ Env /\ Probe /\ Disk /\ Others

\* for epoch_num in range(max_epoch)
EpochHead ==
    /\ pc = "epoch"
    /\ IF epoch_num + 1 < max_epoch
       THEN epoch_num' = epoch_num + 1 /\ i_batch' = -1 /\ pc' = "fetch"
       ELSE UNCHANGED <<epoch_num, i_batch>> /\ pc' = "finish"
    /\ UNCHANGED <<device, iter_num, loss_ce, loss_dice, loss, lr_, opt_lr, backprop,
                   grad, params, fwd_params, step_lr, batch_log, saved, n_saves,
                   result, exc>>
    /\ Env /\ Probe /\ Disk /\ Others

\* for i_batch, sampled_batch in enumerate(trainloader)
Fetch ==
    /\ pc = "fetch"
    /\ IF i_batch + 1 < n_batches
       THEN i_batch' = i_batch + 1 /\ pc' = "to_cuda"
       ELSE i_batch' = i_batch /\ pc' = "ckpt80"
    /\ UNCHANGED <<device, epoch_num, iter_num, loss_ce, loss_dice, loss, lr_, opt_lr,
                   backprop, grad, params, fwd_params, step_lr, batch_log, saved,
                   n_saves, result, exc>>
    /\ Env /\ Probe /\ Disk /\ Others

\* image_batch.cuda(), label_batch.cuda()
ToCuda ==
    /\ pc = "to_cuda"
    /\ IF cuda_ok
       THEN pc' = "forward" /\ exc' = exc
       ELSE pc' = OnException /\ exc' = "to_cuda"
    /\ UNCHANGED <<device, epoch_num, i_batch, iter_num, loss_ce, loss_dice, loss, lr_,
                   opt_lr, backprop, grad, params, fwd_params, step_lr, batch_log,
                   saved, n_saves, result>>
    /\ Env /\ Probe /\ Disk /\ Others

\* outputs = model(image_batch)
Forward ==
    /\ pc = "forward"
    /\ fwd_params' = params
    /\ pc' = "loss"
    /\ UNCHANGED <<device, epoch_num, i_batch, iter_num, loss_ce, loss_dice, loss, lr_,
                   opt_lr, backprop, grad, params, step_lr, batch_log, saved, n_saves,
                   result, exc>>
    /\ Env /\ Probe /\ Disk /\ Others

\* loss_ce, loss_dice, loss = 0.4 * loss_ce + 0.6 * loss_dice
ComputeLoss ==
    /\ pc = "loss"
    /\ \E ce \in LossVals, dice \in LossVals :
          /\ loss_ce' = ce
          /\ loss_dice' = dice
          /\ loss' = TotalLoss(ce, dice)
    /\ pc' = "zero_grad"
    /\ UNCHANGED <<device, epoch_num, i_batch, iter_num, lr_, opt_lr, backprop, grad,
                   params, fwd_params, step_lr, batch_log, saved, n_saves, result, exc>>
    /\ Env /\ Probe /\ Disk /\ Others

\* optimizer.zero_grad()
ZeroGrad ==
    /\ pc = "zero_grad"
    /\ grad' = zero_grad(grad)
    /\ pc' = "backward"
    /\ UNCHANGED <<device, epoch_num, i_batch, iter_num, loss_ce, loss_dice, loss, lr_,
                   opt_lr, backprop, params, fwd_params, step_lr, batch_log, saved,
                   n_saves, result, exc>>
    /\ Env /\ Probe /\ Disk /\ Others

\* loss.backward(): gradients are added to the .grad buffers
Backward ==
    /\ pc = "backward"
    /\ backprop' = loss
    /\ grad' = grad \cup {iter_num}
    /\ pc' = "step"
    /\ UNCHANGED <<device, epoch_num, i_batch, iter_num, loss_ce, loss_dice, loss, lr_,
                   opt_lr, params, fwd_params, step_lr, batch_log, saved, n_saves,
                   result, exc>>
    /\ Env /\ Probe /\ Disk /\ Others

\* optimizer.step(): the update uses the parameter group's own lr
OptimizerStep ==
    /\ pc = "step"
    /\ params' = params + 1
    /\ step_lr' = opt_lr
    /\ pc' = "lr"
    /\ UNCHANGED <<device, epoch_num, i_batch, iter_num, loss_ce, loss_dice, loss, lr_,
                   opt_lr, backprop, grad, fwd_params, batch_log, saved, n_saves,
                   result, exc>>
    /\ Env /\ Probe /\ Disk /\ Others

\* lr_ = base_lr * (1.0 - iter_num / max_iterations) ** 0.9; nothing else is assigned
LrUpdate ==
    /\ pc = "lr"
    /\ lr_' = PolyLr(base_lr, iter_num, max_iterations)
    /\ pc' = "log"
    /\ UNCHANGED <<device, epoch_num, i_batch, iter_num, loss_ce, loss_dice, loss,
                   opt_lr, backprop, grad, params, fwd_params, step_lr, batch_log,
                   saved, n_saves, result, exc>>
    /\ Env /\ Probe /\ Disk /\ Others

\* writer.add_scalar('info/lr' | 'info/total_loss' | 'info/dice_loss' | 'info/loss_ce')
LogScalars ==
    /\ pc = "log"
    /\ batch_log' = [lr |-> lr_, total_loss |-> loss, dice_loss |-> loss_dice,
                     loss_ce |-> loss_ce, step |-> iter_num]
    /\ pc' = "incr"
    /\ UNCHANGED <<device, epoch_num, i_batch, iter_num, loss_ce, loss_dice, loss, lr_,
                   opt_lr, backprop, grad, params, fwd_params, step_lr, saved, n_saves,
                   result, exc>>
    /\ Env /\ Probe /\ Disk /\ Others

\* iter_num += 1; the batch's locals are dead from here on and are cleared
IncrIter ==
    /\ pc = "incr"
    /\ iter_num' = NextIter(iter_num)
    /\ loss_ce' = 0 /\ loss_dice' = 0 /\ loss' = 0
    /\ lr_' = -1
    /\ backprop' = 0
    /\ batch_log' = NoLog
    /\ pc' = "fetch"
    /\ UNCHANGED <<device, epoch_num, i_batch, opt_lr, grad, params, fwd_params,
                   step_lr, saved, n_saves, result, exc>>
    /\ Env /\ Probe /\ Disk /\ Others

\* if epoch_num > 80: torch.save(..., 'epoch_' + str(epoch_num) + '.pth')
CkptThreshold ==
    /\ pc = "ckpt80"
    /\ IF SaveByThreshold(epoch_num)
       THEN /\ saved' = saved \cup {epoch_num} /\ n_saves' = n_saves + 1
            /\ files' = torch_save(files, save_mode_path(epoch_num), epoch_num)
       ELSE UNCHANGED <<saved, n_saves, files>>
    /\ pc' = "ckpt_final"
    /\ UNCHANGED <<device, epoch_num, i_batch, iter_num, loss_ce, loss_dice, loss, lr_,
                   opt_lr, backprop, grad, params, fwd_params, step_lr, batch_log,
                   result, exc>>
    /\ Env /\ Probe /\ Others

\* if epoch_num >= max_epoch - 1: torch.save(...); iterator.close(); break
CkptFinal ==
    /\ pc = "ckpt_final"
    /\ IF SaveAtFinal(epoch_num, max_epoch)
       THEN /\ saved' = saved \cup {epoch_num} /\ n_saves' = n_saves + 1
            /\ files' = torch_save(files, save_mode_path(epoch_num), epoch_num)
            /\ pc' = "finish"
       ELSE UNCHANGED <<saved, n_saves, files>> /\ pc' = "epoch"
    /\ UNCHANGED <<device, epoch_num, i_batch, iter_num, loss_ce, loss_dice, loss, lr_,
                   opt_lr, backprop, grad, params, fwd_params, step_lr, batch_log,
                   result, exc>>
    /\ Env /\ Probe /\ Others

\* writer.close(); return "Training Finished!"
Finish ==
    /\ pc = "finish"
    /\ result' = "Training Finished!"
    /\ pc' = "done"
    /\ UNCHANGED <<device, epoch_num, i_batch, iter_num, loss_ce, loss_dice, loss, lr_,
                   opt_lr, backprop, grad, params, fwd_params, step_lr, batch_log,
                   saved, n_saves, exc>>
    /\ Env /\ Probe /\ Disk /\ Others

\* an exception in the loader, the framework or the disk write at the current place
Raise ==
    /\ CanRaise
    /\ pc' = OnException
    /\ exc' = pc
    /\ UNCHANGED <<device, epoch_num, i_batch, iter_num, loss_ce, loss_dice, loss, lr_,
                   opt_lr, backprop, grad, params, fwd_params, step_lr, batch_log,
                   saved, n_saves, result>>
    /\ Env /\ Probe /\ Disk /\ Others

\* the driver is not running: the driver part of the state in the specifications
\* of the pure functions
TrainerOff ==
    /\ trainer = "none"
    /\ cuda_ok = FALSE
    /\ max_epoch = 0
    /\ n_batches = 0
    /\ base_lr = 0
    /\ pc = "off"
    /\ device = "unbound"
    /\ xpu_seen = "unasked"
    /\ diagnostic = FALSE
    /\ epoch_num = -1
    /\ i_batch = -1
    /\ iter_num = 0
    /\ loss_ce = 0 /\ loss_dice = 0 /\ loss = 0
    /\ lr_ = -1
    /\ opt_lr = -1
    /\ backprop = 0
    /\ grad = {}
    /\ params = 0
    /\ fwd_params = 0
    /\ step_lr = -1
    /\ batch_log = NoLog
    /\ saved = {}
    /\ n_saves = 0
    /\ files = {}
    /\ result = "none"
    /\ exc = "none"

Idle == [at |-> "idle"]

Init == TrainerInit /\ sched = Idle /\ net = Idle /\ kd = Idle

Next ==
    \/ DeviceCheck
    \/ PrintDevice
    \/ Setup
    \/ EpochHead
    \/ Fetch
    \/ ToCuda
    \/ Forward
    \/ ComputeLoss
    \/ ZeroGrad
    \/ Backward
    \/ OptimizerStep
    \/ LrUpdate
    \/ LogScalars
    \/ IncrIter
    \/ CkptThreshold
    \/ CkptFinal
    \/ Finish
    \/ Raise

Spec == Init /\ [][Next]_vars

(***************************************************************************)
(* Properties of the training driver.                                      *)
(***************************************************************************)
InBatch == pc \in {"to_cuda", "forward", "loss", "zero_grad", "backward", "step",
                   "lr", "log", "incr"}

\* C1: for max_epochs = 90, a run that completes has written checkpoint files for
\* exactly the epochs 81..89 (9 files), and at no time is there a file for an epoch
\* index <= 80.
C1_CheckpointsOf90 ==
    max_epoch = 90 =>
        /\ \A e \in saved : e > 80 /\ e <= 89
        /\ pc = "done" => saved = 81..89 /\ Cardinality(saved) = 9

C1_Witness == pc = "done" /\ max_epoch = 90 /\ n_batches = 2 /\ iter_num = 180

\* C2: for every max_epochs >= 1, a run that completes has checkpointed exactly the
\* epochs above 80 together with the final epoch max_epochs-1; with max_epochs <= 81
\* the final epoch is the only checkpoint.  During the run, every finished epoch
\* above 80 has its checkpoint.
C2_CheckpointSet ==
    max_epoch >= 1 =>
        /\ pc = "done" =>
              /\ saved = {e \in 0..(max_epoch - 1) : e > 80} \cup {max_epoch - 1}
              /\ max_epoch <= 81 => saved = {max_epoch - 1}
        /\ pc \in {"epoch", "ckpt_final"} /\ epoch_num >= 0 =>
              \A e \in 0..epoch_num : e > 80 => e \in saved

C2_Witness == pc = "done" /\ max_epoch = 81 /\ saved = {80} /\ iter_num > 0

\* C3 (as claimed): once a batch has computed lr_, the learning rate the optimizer
\* holds for its parameter updates is that decayed value.
C3_OptimizerLrDecays == pc \in {"log", "incr"} => opt_lr = lr_

\* C5: whenever a batch's total loss exists, is backpropagated or is logged as
\* info/total_loss, it equals 0.4*CE + 0.6*Dice (in tenths: 4*CE + 6*Dice) of that
\* batch's own CE and Dice values, with no other term.
C5_TotalLoss ==
    /\ pc \in {"zero_grad", "backward", "step", "lr", "log", "incr"} =>
          loss = 4 * loss_ce + 6 * loss_dice
    /\ pc \in {"step", "lr", "log", "incr"} =>
          backprop = 4 * loss_ce + 6 * loss_dice
    /\ pc = "incr" =>
          /\ batch_log.step = iter_num
          /\ batch_log.loss_ce = loss_ce
          /\ batch_log.dice_loss = loss_dice
          /\ batch_log.total_loss = 4 * loss_ce + 6 * loss_dice

C5_Witness ==
    /\ pc = "incr" /\ loss_ce = 1 /\ loss_dice = 2 /\ batch_log.total_loss = 16
    /\ iter_num >= 1

\* a measure of the work left, for termination
EpochCost == 10 * n_batches + 4
Rank ==
    LET remE == max_epoch - (epoch_num + 1)
        remB == n_batches - (i_batch + 1)
        pos == CASE pc = "to_cuda" -> 9 [] pc = "forward" -> 8 [] pc = "loss" -> 7
                 [] pc = "zero_grad" -> 6 [] pc = "backward" -> 5 [] pc = "step" -> 4
                 [] pc = "lr" -> 3 [] pc = "log" -> 2 [] pc = "incr" -> 1
                 [] OTHER -> 0
    IN CASE pc = "device_check" -> max_epoch * EpochCost + 5
         [] pc = "print_device" -> max_epoch * EpochCost + 4
         [] pc = "setup" -> max_epoch * EpochCost + 3
         [] pc = "epoch" -> remE * EpochCost + 2
         [] pc = "fetch" -> remE * EpochCost + 5 + 10 * remB
         [] InBatch -> remE * EpochCost + 5 + 10 * remB + pos
         [] pc = "ckpt80" -> remE * EpochCost + 4
         [] pc = "ckpt_final" -> remE * EpochCost + 3
         [] pc = "finish" -> 1
         [] OTHER -> 0

\* where the counters stand at each place of the loop
C6_Position ==
    /\ epoch_num < max_epoch \/ max_epoch = 0
    /\ i_batch < n_batches \/ n_batches = 0
    /\ iter_num >= 0
    /\ InBatch => iter_num = epoch_num * n_batches + i_batch
    /\ pc = "fetch" => iter_num = epoch_num * n_batches + i_batch + 1
    /\ pc \in {"ckpt80", "ckpt_final"} => iter_num = (epoch_num + 1) * n_batches
    /\ pc = "done" => iter_num = max_epoch * n_batches /\ result = "Training Finished!"
    /\ result = "Training Finished!" => pc = "done"
    /\ Rank >= 0

\* what one step may do to the counters
C6_Step ==
    /\ iter_num' = iter_num \/ (iter_num' = iter_num + 1 /\ pc = "incr")
    /\ pc = "incr" => iter_num' = iter_num + 1
    /\ epoch_num' = epoch_num \/ (epoch_num' = epoch_num + 1 /\ pc = "epoch")
    /\ i_batch' = i_batch
         \/ (i_batch' = i_batch + 1 /\ pc = "fetch")
         \/ (i_batch' = -1 /\ pc = "epoch")
    /\ Rank' < Rank

\* C6: epochs run 0..max_epochs-1 in order, each consuming the loader's batches one
\* by one; iter_num starts at 0, grows by exactly 1 per batch and never decreases;
\* every step reduces the work left, and a run that does not fail ends with
\* iter_num = max_epochs * batches_per_epoch and returns "Training Finished!".
C6_LoopProgress == [] C6_Position /\ [][C6_Step]_vars

C6_Witness ==
    /\ pc = "done" /\ max_epoch = 3 /\ n_batches = 2 /\ iter_num = 6
    /\ result = "Training Finished!"

\* no step starts in the raised state; a step that raises changes nothing else
C9_Raising ==
    /\ pc # "raised"
    /\ (exc' # exc \/ pc' = "raised") =>
          /\ pc' = "raised" /\ exc' = pc /\ result' = "none"
          /\ UNCHANGED <<epoch_num, i_batch, iter_num, params, saved, n_saves>>

\* C9: an exception at any place of the loop ends the run there: the step that
\* raised it brings the driver to its raised state without touching the counters,
\* the parameters or the checkpoints; from the raised state no step is taken (no
\* retry, no later batch or epoch, no checkpoint), and the driver never returns.
C9_FailureEndsRun ==
    /\ [](pc = "raised" <=> exc # "none")
    /\ [](pc = "raised" => result = "none")
    /\ [][C9_Raising]_vars

C9_Witness ==
    /\ pc = "raised" /\ exc = "ckpt80" /\ epoch_num = 85 /\ saved = 81..84
    /\ iter_num = 172

\* the operations of one batch, by position in the code
BatchOrder == <<"forward", "loss", "zero_grad", "backward", "step", "lr", "log", "incr">>

\* the position that follows position p within a batch; after the step-counter
\* increment the loop asks the loader for the next batch
AfterInBatch(p) ==
    IF p = "incr" THEN "fetch"
    ELSE LET k == CHOOSE j \in 1..(Len(BatchOrder) - 1) : BatchOrder[j] = p
         IN  BatchOrder[k + 1]

C11_Position ==
    \* the backward pass starts from cleared buffers, the optimizer step sees the
    \* gradients of the current step only, computed from the current batch's loss
    /\ pc = "backward" => grad = {}
    /\ pc = "step" => grad = {iter_num} /\ backprop = loss /\ loss = TotalLoss(loss_ce, loss_dice)
    \* the parameters the forward pass used are the ones the backward pass and
    \* the optimizer step find
    /\ pc \in {"loss", "zero_grad", "backward", "step"} => params = fwd_params
    \* one optimizer step per batch
    /\ pc \in {"forward", "loss", "zero_grad", "backward", "step"} => params = iter_num
    /\ pc \in {"lr", "log", "incr"} => params = iter_num + 1 /\ fwd_params = iter_num

C11_Step ==
    \* the positions follow each other in the fixed order (or the run ends in an
    \* exception)
    /\ (\E k \in 1..Len(BatchOrder) : pc = BatchOrder[k])
          => pc' \in {AfterInBatch(pc), "raised"}
    \* each effect belongs to its position
    /\ fwd_params' # fwd_params => pc = "forward"
    /\ (loss' # loss /\ loss' # 0) => pc = "loss"
    /\ grad' # grad => \/ pc = "zero_grad" /\ grad' = {}
                       \/ pc = "backward" /\ grad' = {iter_num}
    /\ params' # params => pc = "step" /\ params' = params + 1
    /\ (lr_' # lr_ /\ lr_' # -1) => pc = "lr"
    /\ (batch_log' # batch_log /\ batch_log' # NoLog) => pc = "log" /\ batch_log'.step = iter_num
    /\ iter_num' # iter_num => pc = "incr"

\* C11: within every batch the operations run in the order forward pass, loss
\* computation, zero gradients, backpropagate, optimizer step, learning-rate
\* computation, scalar logging, step-counter increment; the gradients are zeroed
\* before each backward pass, so each optimizer step uses the current batch's
\* gradients only; the parameters change in the optimizer step only, never between
\* a forward pass and its backward pass.
C11_BatchOrder == [] C11_Position /\ [][C11_Step]_vars

\* the second batch of a run has gone through all its operations but the increment
C11_Witness ==
    /\ pc = "incr" /\ iter_num = 1 /\ grad = {1} /\ params = 2 /\ fwd_params = 1
    /\ batch_log.step = 1 /\ backprop = loss

C12_Position ==
    \* the diagnostic is printed exactly when both availability tests answered no
    /\ diagnostic <=> (trainer = "synapse" /\ ~cuda_ok /\ xpu_seen = "no")
    \* and then `device` is still unbound after the check; the run is past the
    \* check, at print(device), which is where it then ends
    /\ diagnostic =>
          /\ device = "unbound"
          /\ \/ pc = "print_device" /\ exc = "none"
             \/ pc = "raised" /\ exc = "print_device"

C12_Step ==
    \* the check itself never ends the run: the next statement is reached
    pc = "device_check" => pc' = "print_device" /\ exc' = "none" /\ result' = "none"

\* C12: in trainer_synapse, when neither CUDA nor XPU is available, the
\* device-availability check prints a diagnostic and does not abort the run:
\* control goes on to the statement after the check with `device` left unbound.
C12_NoDeviceFallsThrough == [] C12_Position /\ [][C12_Step]_vars

\* neither accelerator is there and the check has been passed
C12_Witness ==
    /\ trainer = "synapse" /\ ~cuda_ok /\ xpu_seen = "no" /\ diagnostic
    /\ pc = "print_device" /\ device = "unbound" /\ exc = "none"

\* the files that have been written more than once
Rewritten == {f \in files : f.writes > 1}

C13_Position ==
    \* no file holds the checkpoint of another epoch than the one that created it
    /\ \A f \in files : f.first = f.last
    \* one file per epoch that saved
    /\ {f.last : f \in files} = saved
    /\ Cardinality(files) = Cardinality(saved)
    \* only the final epoch's file is written twice, and only past the threshold
    /\ \A f \in Rewritten :
          f.writes = 2 /\ f.last = max_epoch - 1 /\ f.last > SaveAfterEpoch
    /\ n_saves = Cardinality(files) + Cardinality(Rewritten)
    \* between the two rules the threshold rule's file has just been written
    /\ (pc = "ckpt_final" /\ epoch_num > SaveAfterEpoch) =>
          \E f \in files : f.last = epoch_num /\ f.writes = 1
    \* a run that got through its last save
    /\ pc \in {"finish", "done"} =>
          /\ n_saves = Cardinality(files)
                          + (IF max_epoch - 1 > SaveAfterEpoch THEN 1 ELSE 0)
          /\ max_epoch - 1 > SaveAfterEpoch =>
                \E f \in Rewritten : f.last = max_epoch - 1
    \* the names of the epochs of the run are pairwise different
    /\ pc = "done" =>
          LET name == [e \in 0..max_epoch |-> save_mode_path(e)]
          IN  \A d, e \in 0..max_epoch : name[d] = name[e] => d = e

C13_Step ==
    \* the second write to a file is the final-epoch rule's, one step after the
    \* threshold rule's
    \A f \in files : \A g \in files' :
        (g.path = f.path /\ g # f) =>
            /\ pc = "ckpt_final" /\ epoch_num = max_epoch - 1
            /\ f.last = epoch_num /\ g.last = epoch_num
            /\ f.writes = 1 /\ g.writes = 2

\* C13: checkpoint file names are injective in the epoch index, so no checkpoint
\* is overwritten by a later epoch; the only path written more than once in a run
\* is epoch_<max_epochs-1>.pth, written twice in succession (threshold rule, then
\* final-epoch rule) exactly when max_epochs - 1 > 80; so the number of saves is
\* the number of distinct files plus one in that case, and equal to it otherwise.
C13_DistinctCheckpointFiles == [] C13_Position /\ [][C13_Step]_vars

\* a completed run of 90 epochs: 10 saves, 9 files, epoch_89.pth written twice
C13_Witness ==
    /\ pc = "done" /\ max_epoch = 90 /\ n_saves = 10 /\ Cardinality(files) = 9
    /\ \E f \in files :
          /\ f.path = <<"snapshot_path", "/", "epoch_", "8", "9", ".pth">>
          /\ f.first = 89 /\ f.last = 89 /\ f.writes = 2

(***************************************************************************)
(* The learning-rate expression as a pure function of the step and the     *)
(* total number of steps: it is evaluated for step = 0, 1, ..., total - 1, *)
(* as the loop does.                                                       *)
(***************************************************************************)
LrMaxEpochs == 12
LrMaxBatches == 3
LrBases == {BaseLrUnits, BaseLrUnits \div 4}

InitLR ==
    /\ TrainerOff /\ net = Idle /\ kd = Idle
    /\ \E b \in LrBases, m \in 1..LrMaxEpochs, n \in 1..LrMaxBatches :
          sched = [at |-> "eval", base |-> b, epochs |-> m, batches |-> n,
                   total |-> m * n, step |-> 0, lr |-> -1, prev |-> -1, first |-> -1]

\* one evaluation of lr_ for the current step, then the step counter moves on
LrEval ==
    /\ sched.at = "eval"
    /\ sched.step < sched.total
    /\ LET v == PolyLr(sched.base, sched.step, sched.total) IN
          sched' = [sched EXCEPT !.lr = v, !.prev = sched.lr,
                                 !.first = IF sched.step = 0 THEN v ELSE sched.first,
                                 !.step = NextIter(sched.step)]
    /\ UNCHANGED <<tvars, net, kd>>

NextLR == LrEval

SpecLR == InitLR /\ [][NextLR]_vars

LrEvaluated == sched.at = "eval" /\ sched.step >= 1
LrAtLast == sched.at = "eval" /\ sched.step = sched.total

\* "approximately 0": within a tenth of base_lr
ApproxZero(x, base) == 10 * x <= base

\* C4 (as claimed): lr(0) = base_lr, lr never increases from one step to the next,
\* and lr(total_steps - 1) is approximately 0.
C4_ScheduleEndsNearZero ==
    LrEvaluated =>
        /\ sched.first = sched.base
        /\ sched.prev # -1 => sched.lr <= sched.prev
        /\ LrAtLast => ApproxZero(sched.lr, sched.base)

\* C4 (amended): lr(0) = base_lr, lr never increases from one step to the next, and
\* lr(total_steps - 1) = base_lr * total_steps^(-0.9): it is positive, it equals
\* base_lr exactly when total_steps = 1, and it lies between base_lr / total_steps
\* and base_lr / sqrt(total_steps) (up to the rounding of one unit), so it is near 0
\* only when total_steps is large.
C4_Schedule ==
    LrEvaluated =>
        /\ sched.first = sched.base
        /\ sched.prev # -1 => sched.lr <= sched.prev
        /\ sched.lr > 0 /\ sched.lr <= sched.base
        /\ LrAtLast =>
              /\ (sched.lr = sched.base) <=> (sched.total = 1)
              /\ (sched.lr + 1) * sched.total >= sched.base
              /\ sched.lr * sched.lr * sched.total <= sched.base * sched.base

C4_Witness ==
    /\ LrAtLast /\ sched.total = 36 /\ sched.base = BaseLrUnits
    /\ sched.lr < sched.prev /\ sched.lr * 20 < sched.base

(***************************************************************************)
(* UNet_STA.forward on tensor shapes.  A shape is [n, c, h, w]; ShapeErr   *)
(* stands for the RuntimeError a layer raises on a shape it cannot take.   *)
(***************************************************************************)
NetMaxBatch == 2         \* N ranges over 1..NetMaxBatch
NetMaxChannels == 2      \* C_in and n_in range over 1..NetMaxChannels
NetMaxSize == 33         \* H and W range over 1..NetMaxSize
NetClasses == {2, 9}     \* values of n_class

Shape(n, c, h, w) == [n |-> n, c |-> c, h |-> h, w |-> w]
ShapeErr == Shape(0, 0, 0, 0)

\* nn.Conv2d(in_c, out_c, kernel_size=k, padding=p), stride 1
Conv2d(x, in_c, out_c, k, p) ==
    IF x = ShapeErr \/ x.c # in_c \/ x.h + 2 * p - k + 1 < 1 \/ x.w + 2 * p - k + 1 < 1
    THEN ShapeErr
    ELSE Shape(x.n, out_c, x.h + 2 * p - k + 1, x.w + 2 * p - k + 1)

\* nn.BatchNorm2d(c)
BatchNorm2d(x, c) == IF x = ShapeErr \/ x.c # c THEN ShapeErr ELSE x

\* nn.ReLU()
ReLU(x) == x

\* mutant: pooling that keeps the resolution
MaxPool2dSame(x, k) == x

\* nn.MaxPool2d((k, k)): stride k, floor mode
MaxPool2d(x, k) ==
    IF x = ShapeErr \/ x.h \div k < 1 \/ x.w \div k < 1 THEN ShapeErr
    ELSE Shape(x.n, x.c, x.h \div k, x.w \div k)

\* nn.ConvTranspose2d(in_c, out_c, kernel_size=k, stride=st, padding=0)
ConvTranspose2d(x, in_c, out_c, k, st) ==
    IF x = ShapeErr \/ x.c # in_c THEN ShapeErr
    ELSE Shape(x.n, out_c, (x.h - 1) * st + k, (x.w - 1) * st + k)

\* torch.cat([x, skip], axis=1)
CatChannels(x, skip) ==
    IF x = ShapeErr \/ skip = ShapeErr \/ x.n # skip.n \/ x.h # skip.h \/ x.w # skip.w
    THEN ShapeErr
    ELSE Shape(x.n, x.c + skip.c, x.h, x.w)

\* conv_block.forward: conv1, bn1, relu, conv2, bn2, relu
conv_block(x, in_c, out_c) ==
    LET a == ReLU(BatchNorm2d(Conv2d(x, in_c, out_c, 3, 1), out_c))
    IN ReLU(BatchNorm2d(Conv2d(a, out_c, out_c, 3, 1), out_c))

\* encoder_block.forward: x = conv(inputs); p = pool(x); return x, p
encoder_block(x, in_c, out_c) ==
    LET c == conv_block(x, in_c, out_c) IN [x |-> c, p |-> MaxPool2d(c, 2)]

\* mutant: the transposed convolution keeps its input channel count
decoder_upWide(x, in_c, out_c) == ConvTranspose2d(x, in_c, in_c, 2, 2)

\* decoder_block.up = nn.ConvTranspose2d(in_c, out_c, kernel_size=2, stride=2, padding=0)
decoder_up(x, in_c, out_c) == ConvTranspose2d(x, in_c, out_c, 2, 2)

\* decoder_block.conv = conv_block(out_c + out_c, out_c): its input channel count
decoder_conv_in(out_c) == out_c + out_c

\* the attention-refinement layer (BasicLayer of unet/stvit.py): shape preserving
BasicLayer(x) == x

\* UNet_STA.__init__: (in_c, out_c) of e1..e4 and of d1..d4, and of the bottleneck
EncIn(n_in) == <<n_in, 64, 128, 256>>
EncOut == <<64, 128, 256, 512>>
BottleneckIn == 512
BottleneckOut == 1024
DecIn == <<1024, 512, 256, 128>>
DecOut == <<512, 256, 128, 64>>
OutputsIn == 64
NumStages == 4

InitNet ==
    /\ TrainerOff /\ sched = Idle /\ kd = Idle
    /\ \E n \in 1..NetMaxBatch, c \in 1..NetMaxChannels, n_in \in 1..NetMaxChannels,
          h \in 1..NetMaxSize, w \in 1..NetMaxSize, n_class \in NetClasses :
          net = [at |-> "encoder", n_in |-> n_in, n_class |-> n_class,
                 inputs |-> Shape(n, c, h, w), stage |-> 1,
                 skips |-> <<>>, cur |-> Shape(n, c, h, w), cats |-> <<>>,
                 outputs |-> ShapeErr]

NetRaise == [net EXCEPT !.at = "raised", !.cur = ShapeErr]

\* s_k, p_k = self.e_k(p_{k-1}); p_k = self.e_svl_k(p_k)
EncoderStage ==
    /\ net.at = "encoder"
    /\ LET k == net.stage
           r == encoder_block(net.cur, EncIn(net.n_in)[k], EncOut[k])
           p == BasicLayer(r.p)
       IN net' = IF r.x = ShapeErr \/ p = ShapeErr THEN NetRaise
                 ELSE [net EXCEPT !.skips = Append(@, r.x), !.cur = p,
                                  !.stage = IF k = NumStages THEN k ELSE k + 1,
                                  !.at = IF k = NumStages THEN "bottleneck" ELSE @]
    /\ UNCHANGED <<tvars, sched, kd>>

\* b = self.b(p4)
Bottleneck ==
    /\ net.at = "bottleneck"
    /\ LET b == conv_block(net.cur, BottleneckIn, BottleneckOut)
       IN net' = IF b = ShapeErr THEN NetRaise
                 ELSE [net EXCEPT !.cur = b, !.stage = 1, !.at = "decoder"]
    /\ UNCHANGED <<tvars, sched, kd>>

\* d_k = self.d_k(d_{k-1}, s_{5-k}); d_k = self.d_svl_k(d_k)
DecoderStage ==
    /\ net.at = "decoder"
    /\ LET k == net.stage
           skip == net.skips[NumStages + 1 - k]
           up == decoder_up(net.cur, DecIn[k], DecOut[k])
           cat == CatChannels(up, skip)
           d == BasicLayer(conv_block(cat, decoder_conv_in(DecOut[k]), DecOut[k]))
       IN net' = IF up = ShapeErr THEN NetRaise
                 ELSE IF d = ShapeErr
                 THEN [NetRaise EXCEPT
                          !.cats = Append(@, [x |-> up, skip |-> skip, out |-> cat])]
                 ELSE [net EXCEPT
                          !.cats = Append(@, [x |-> up, skip |-> skip, out |-> cat]),
                          !.cur = d,
                          !.stage = IF k = NumStages THEN k ELSE k + 1,
                          !.at = IF k = NumStages THEN "outputs" ELSE @]
    /\ UNCHANGED <<tvars, sched, kd>>

\* outputs = self.outputs(d4); return outputs
Project ==
    /\ net.at = "outputs"
    /\ LET o == Conv2d(net.cur, OutputsIn, net.n_class, 1, 0)
       IN net' = IF o = ShapeErr THEN NetRaise
                 ELSE [net EXCEPT !.outputs = o, !.cur = o, !.at = "done"]
    /\ UNCHANGED <<tvars, sched, kd>>

NextNet == EncoderStage \/ Bottleneck \/ DecoderStage \/ Project

SpecNet == InitNet /\ [][NextNet]_vars

RECURSIVE Pow2(_)
Pow2(k) == IF k = 0 THEN 1 ELSE 2 * Pow2(k - 1)

NetRunning == net.at # "idle"
ValidInput ==
    /\ net.inputs.c = net.n_in
    /\ net.inputs.h % 16 = 0
    /\ net.inputs.w % 16 = 0

\* C7: for an input (N, C_in, H, W) with C_in = n_in and H, W divisible by 16 the
\* forward pass raises nothing and its output has shape (N, n_class, H, W); after
\* encoder stage k the feature map is H/2^k x W/2^k, and after decoder stage k it is
\* H/2^(4-k) x W/2^(4-k) (the attention-refinement layers preserving shapes).
C7_OutputShape ==
    NetRunning /\ ValidInput =>
        /\ net.at # "raised"
        /\ net.at = "done" =>
              net.outputs = Shape(net.inputs.n, net.n_class, net.inputs.h, net.inputs.w)
        /\ \A k \in 1..Len(net.skips) :
              /\ net.skips[k].h * Pow2(k - 1) = net.inputs.h
              /\ net.skips[k].w * Pow2(k - 1) = net.inputs.w
        /\ net.at = "encoder" =>
              /\ net.cur.h * Pow2(Len(net.skips)) = net.inputs.h
              /\ net.cur.w * Pow2(Len(net.skips)) = net.inputs.w
        /\ net.at = "bottleneck" =>
              net.cur.h * 16 = net.inputs.h /\ net.cur.w * 16 = net.inputs.w
        /\ net.at \in {"decoder", "outputs"} =>
              /\ net.cur.h * Pow2(4 - Len(net.cats)) = net.inputs.h
              /\ net.cur.w * Pow2(4 - Len(net.cats)) = net.inputs.w

C7_Witness ==
    /\ net.at = "done" /\ net.inputs = Shape(2, 2, 32, 16) /\ net.n_class = 9
    /\ net.outputs = Shape(2, 9, 32, 16)

\* C8: at each of the four decoder stages the upsampled tensor and the encoder skip
\* tensor handed to the concatenation have equal channel counts (512, 256, 128, 64
\* by stage), the concatenated channel count is the input channel count of the
\* stage's conv_block, and the two have equal spatial size whenever the
\* concatenation is carried out, which for H, W divisible by 16 is at every stage.
C8_SkipChannels ==
    NetRunning =>
        \A k \in 1..Len(net.cats) :
            LET c == net.cats[k] IN
            /\ c.x.c = c.skip.c
            /\ c.x.c = <<512, 256, 128, 64>>[k]
            /\ c.x.c + c.skip.c = decoder_conv_in(DecOut[k])
            /\ c.out # ShapeErr =>
                  /\ c.x.h = c.skip.h /\ c.x.w = c.skip.w /\ c.x.n = c.skip.n
                  /\ c.out.c = c.x.c + c.skip.c
            /\ ValidInput => c.out # ShapeErr

C8_Witness ==
    /\ net.at = "done" /\ Len(net.cats) = 4
    /\ net.inputs.h = 32 /\ net.inputs.w = 16
    /\ net.cats[1].x = Shape(net.inputs.n, 512, 4, 2)
    /\ net.cats[1].skip = Shape(net.inputs.n, 512, 4, 2)
    /\ net.cats[4].out = Shape(net.inputs.n, 128, 32, 16)

(***************************************************************************)
(* KDloss.inter_fd on small feature maps.  A feature map of shape          *)
(* (1, c, h, w) is [c, h, w, v] with v[<<q, i, j>>] its value at channel   *)
(* q, row i, column j, in quarters (so that the averages of the pooling    *)
(* windows stay integers).  A loss value is the fraction [num, den].       *)
(***************************************************************************)
KdChannels == {1, 2}
KdSizes == {1, 2}
KdVals == {0, 4}         \* 0.0 and 1.0, in quarters
KdMaxCells == 4          \* c * h * w of an input is at most KdMaxCells

Cells(c, h, w) == (1..c) \X (1..h) \X (1..w)

KdTensors ==
    UNION {{[c |-> c, h |-> h, w |-> w, v |-> f] : f \in [Cells(c, h, w) -> KdVals]} :
           <<c, h, w>> \in {t \in KdChannels \X KdSizes \X KdSizes :
                              t[1] * t[2] * t[3] <= KdMaxCells}}

RECURSIVE SumOver(_, _)
SumOver(S, f) ==
    IF S = {} THEN 0
    ELSE LET x == CHOOSE y \in S : TRUE IN f[x] + SumOver(S \ {x}, f)

\* the input indices output index i averages over, for input size n, output size o
PoolWindow(i, n, o) == (((i - 1) * n) \div o + 1)..((i * n + o - 1) \div o)

\* F.adaptive_avg_pool2d(x, (oh, ow))
adaptive_avg_pool2d(x, oh, ow) ==
    [c |-> x.c, h |-> oh, w |-> ow,
     v |-> [t \in Cells(x.c, oh, ow) |->
              LET win == {t[1]} \X PoolWindow(t[2], x.h, oh) \X PoolWindow(t[3], x.w, ow)
              IN SumOver(win, x.v) \div Cardinality(win)]]

\* x[:, idx, :, :]
IndexSelect(x, idx) ==
    [c |-> Len(idx), h |-> x.h, w |-> x.w,
     v |-> [t \in Cells(Len(idx), x.h, x.w) |-> x.v[<<idx[t[1]], t[2], t[3]>>]]]

KdErr == [num |-> -1, den |-> 0]
Max(a, b) == IF a >= b THEN a ELSE b
Min(a, b) == IF a <= b THEN a ELSE b
Broadcastable(m, n) == m = n \/ m = 1 \/ n = 1

\* F.mse_loss(a, b): operands of different sizes are broadcast, or it raises
mse_loss(a, b) ==
    IF ~(a.c = b.c /\ Broadcastable(a.h, b.h) /\ Broadcastable(a.w, b.w)) THEN KdErr
    ELSE LET bh == Max(a.h, b.h)
             bw == Max(a.w, b.w)
             at(x, t) == x.v[<<t[1], IF x.h = 1 THEN 1 ELSE t[2],
                                     IF x.w = 1 THEN 1 ELSE t[3]>>]
             sq == [t \in Cells(a.c, bh, bw) |-> (at(a, t) - at(b, t)) * (at(a, t) - at(b, t))]
         IN [num |-> SumOver(Cells(a.c, bh, bw), sq), den |-> a.c * bh * bw]

\* lines 32-38: the pooling branch, on the heights alone
inter_fd_pool(f_s, f_t) ==
    IF f_s.h > f_t.h THEN [s |-> adaptive_avg_pool2d(f_s, f_t.h, f_t.h), t |-> f_t]
    ELSE IF f_s.h < f_t.h THEN [s |-> f_s, t |-> adaptive_avg_pool2d(f_t, f_s.h, f_s.h)]
    ELSE [s |-> f_s, t |-> f_t]

\* random.sample(range(n), k): the sequences of k distinct indices
Samples(n, k) ==
    {q \in [1..k -> 1..n] : \A i, j \in 1..k : i # j => q[i] # q[j]}

NoCall == [p_s |-> <<0, 0>>, p_t |-> <<0, 0>>, idx_s |-> <<>>, idx_t |-> <<>>,
           loss |-> KdErr]

InitKD ==
    /\ TrainerOff /\ sched = Idle /\ net = Idle
    /\ \E a \in KdTensors, b \in KdTensors :
          kd = [at |-> "pool", call |-> 1, f_s |-> a, f_t |-> b, p_s |-> a, p_t |-> b,
                idx_s |-> <<>>, idx_t |-> <<>>, loss |-> KdErr, first |-> NoCall]

\* s_C, t_C, s_H, t_H = ...; the if / elif / else
InterFdPool ==
    /\ kd.at = "pool"
    /\ LET r == inter_fd_pool(kd.f_s, kd.f_t)
       IN kd' = [kd EXCEPT !.p_s = r.s, !.p_t = r.t, !.at = "sample"]
    /\ UNCHANGED <<tvars, sched, net>>

\* idx_s = random.sample(range(s_C), min(s_C, t_C)); idx_t likewise
InterFdSample ==
    /\ kd.at = "sample"
    /\ \E a \in Samples(kd.f_s.c, Min(kd.f_s.c, kd.f_t.c)),
          b \in Samples(kd.f_t.c, Min(kd.f_s.c, kd.f_t.c)) :
          kd' = [kd EXCEPT !.idx_s = a, !.idx_t = b, !.at = "loss"]
    /\ UNCHANGED <<tvars, sched, net>>

\* inter_fd_loss = F.mse_loss(f_s[:, idx_s, :, :], f_t[:, idx_t, :, :].detach())
InterFdLoss ==
    /\ kd.at = "loss"
    /\ kd' = [kd EXCEPT
                !.loss = mse_loss(IndexSelect(kd.p_s, kd.idx_s),
                                  IndexSelect(kd.p_t, kd.idx_t)),
                !.at = "returned"]
    /\ UNCHANGED <<tvars, sched, net>>

\* the caller evaluates inter_fd again with the two arguments exchanged
InterFdSwapped ==
    /\ kd.at = "returned"
    /\ kd.call = 1
    /\ kd' = [kd EXCEPT
                !.first = [p_s |-> <<kd.p_s.h, kd.p_s.w>>, p_t |-> <<kd.p_t.h, kd.p_t.w>>,
                           idx_s |-> kd.idx_s, idx_t |-> kd.idx_t, loss |-> kd.loss],
                !.call = 2, !.f_s = kd.f_t, !.f_t = kd.f_s,
                !.p_s = kd.f_t, !.p_t = kd.f_s,
                !.idx_s = <<>>, !.idx_t = <<>>, !.loss = KdErr, !.at = "pool"]
    /\ UNCHANGED <<tvars, sched, net>>

NextKD == InterFdPool \/ InterFdSample \/ InterFdLoss \/ InterFdSwapped

SpecKD == InitKD /\ [][NextKD]_vars

KdPooled == kd.at \in {"sample", "loss", "returned"}
Spatial(x) == <<x.h, x.w>>
\* x is at least as large as y in both directions, and larger in one
Larger(x, y) == x.h >= y.h /\ x.w >= y.w /\ Spatial(x) # Spatial(y)

\* C10 (as claimed): whichever argument is the larger feature map, it is pooled down
\* to the spatial size of the smaller one, the smaller one being left as it is; and
\* for the same selected channel pairs inter_fd(a, b) = inter_fd(b, a).
C10_InterFdSymmetric ==
    /\ KdPooled /\ Larger(kd.f_s, kd.f_t) =>
          Spatial(kd.p_s) = Spatial(kd.f_t) /\ kd.p_t = kd.f_t
    /\ KdPooled /\ Larger(kd.f_t, kd.f_s) =>
          Spatial(kd.p_t) = Spatial(kd.f_s) /\ kd.p_s = kd.f_s
    /\ (/\ kd.at = "returned" /\ kd.call = 2
        /\ kd.idx_s = kd.first.idx_t /\ kd.idx_t = kd.first.idx_s) =>
          kd.loss = kd.first.loss

\* the part of C10 that the code does satisfy: the value does not depend on the
\* order of the arguments
KdValueSymmetric ==
    (/\ kd.at = "returned" /\ kd.call = 2
     /\ kd.idx_s = kd.first.idx_t /\ kd.idx_t = kd.first.idx_s) =>
        kd.loss = kd.first.loss

====
